---------------------------- MODULE Spec2Model ----------------------------
(***************************************************************************)
(* Model of the valuation core of WonderLabs: ExpectationInvesting_Code.py *)
(* (fetch_stock_data, calculate_discount_rate, multi_stage_dcf,            *)
(* monte_carlo_simulation, compare_prices, evaluate_stock).                *)
(*                                                                         *)
(* Numbers.  A Python/numpy float is modelled as a pair <<n, d>>:          *)
(*   d > 0          the exact rational n/d, in lowest terms                *)
(*   <<1, 0>>       +inf      <<-1, 0>>  -inf      <<0, 0>>  nan           *)
(* Rounding is not modelled: finite arithmetic is exact.  The IEEE special *)
(* values are modelled because numpy's float64 produces them where a       *)
(* Python float raises ZeroDivisionError.                                  *)
(***************************************************************************)
EXTENDS Integers, Sequences, FiniteSets, TLC

----------------------------------------------------------------------------
(* Extended rational arithmetic *)

Abs(x) == IF x < 0 THEN -x ELSE x

RECURSIVE GCD(_, _)
GCD(a, b) == IF b = 0 THEN a ELSE GCD(b, a % b)

Sign(x) == IF x > 0 THEN 1 ELSE IF x < 0 THEN -1 ELSE 0

\* n/d in lowest terms, d > 0
Rat(n, d) ==
    LET s == IF d < 0 THEN -1 ELSE 1
        g == GCD(Abs(n), Abs(d))
    IN  <<(s * n) \div g, (s * d) \div g>>

Num(n) == <<n, 1>>
INF == <<1, 0>>
NINF == <<-1, 0>>
NAN == <<0, 0>>
Zero == <<0, 1>>
One == <<1, 1>>

IsFinite(x) == x[2] > 0
IsNaN(x) == x = NAN
\* sign of a non-nan value
Sgn(x) == Sign(x[1])

Neg(x) == <<-x[1], x[2]>>

Add(x, y) ==
    IF IsNaN(x) \/ IsNaN(y) THEN NAN
    ELSE IF ~IsFinite(x) /\ ~IsFinite(y) THEN (IF x = y THEN x ELSE NAN)
    ELSE IF ~IsFinite(x) THEN x
    ELSE IF ~IsFinite(y) THEN y
    ELSE LET g == GCD(x[2], y[2])
             l == (x[2] \div g) * y[2]
         IN  Rat(x[1] * (l \div x[2]) + y[1] * (l \div y[2]), l)

Sub(x, y) == Add(x, Neg(y))

Mul(x, y) ==
    IF IsNaN(x) \/ IsNaN(y) THEN NAN
    ELSE IF ~IsFinite(x) \/ ~IsFinite(y)
         THEN (IF Sgn(x) * Sgn(y) = 0 THEN NAN
               ELSE IF Sgn(x) * Sgn(y) > 0 THEN INF ELSE NINF)
    ELSE LET g1 == GCD(Abs(x[1]), y[2])
             g2 == GCD(Abs(y[1]), x[2])
         IN  Rat((x[1] \div g1) * (y[1] \div g2), (x[2] \div g2) * (y[2] \div g1))

\* numpy float64 true division: a zero divisor gives inf/-inf/nan (a warning,
\* no exception); zeros are taken as +0.0
DivF64(x, y) ==
    IF IsNaN(x) \/ IsNaN(y) THEN NAN
    ELSE IF ~IsFinite(y) THEN (IF IsFinite(x) THEN Zero ELSE NAN)
    ELSE IF y = Zero THEN (IF Sgn(x) > 0 THEN INF ELSE IF Sgn(x) < 0 THEN NINF ELSE NAN)
    ELSE IF ~IsFinite(x) THEN (IF Sgn(x) * Sgn(y) > 0 THEN INF ELSE NINF)
    ELSE Mul(x, Rat(y[2], y[1]))

RECURSIVE Pow(_, _)
Pow(x, t) == IF t = 0 THEN One ELSE Mul(x, Pow(x, t - 1))

\* IEEE comparisons: false as soon as an operand is nan
Lt(x, y) ==
    IF IsNaN(x) \/ IsNaN(y) THEN FALSE
    ELSE IF x = y THEN FALSE
    ELSE IF x = NINF \/ y = INF THEN TRUE
    ELSE IF x = INF \/ y = NINF THEN FALSE
    ELSE x[1] * y[2] < y[1] * x[2]

Gt(x, y) == Lt(y, x)

Clip(x, lo, hi) == IF Lt(x, lo) THEN lo ELSE IF Gt(x, hi) THEN hi ELSE x

RECURSIVE SumSeq(_)
SumSeq(s) == IF s = <<>> THEN Zero ELSE Add(s[1], SumSeq(Tail(s)))


----------------------------------------------------------------------------
(* Python values that are not floats *)

\* Python None, and a key that a mapping does not hold
NONE == <<0, -1>>
ABSENT == <<0, -2>>

\* the outcome of a call: the value returned, or the exception raised
Ok(v) == [exc |-> "none", val |-> v]
Raise(e) == [exc |-> e, val |-> NAN]

\* x / y.  ftype is the dynamic type of the float operands: "float" (Python:
\* a zero divisor raises ZeroDivisionError) or "float64" (numpy: inf or nan)
TrueDiv(ftype, x, y) ==
    IF ftype = "float" /\ y = Zero THEN Raise("ZeroDivisionError")
    ELSE Ok(DivF64(x, y))

----------------------------------------------------------------------------
(* multi_stage_dcf *)

\* project_revenues with the transition years compounded off the base revenue
\* instead of the last high-growth year
project_revenues_off_base(revenue, growth_rates, config) ==
    LET H == config.high_growth_period
        T == config.transition_period
        high == [t \in 1..H |-> Mul(revenue, Pow(Add(One, growth_rates[1]), t))]
    IN  IF T >= 1 /\ Len(high) = 0 THEN Raise("IndexError")
        ELSE Ok(high \o [t \in 1..T |->
                     Mul(revenue, Pow(Add(One, growth_rates[2]), t))])

\* revenues after lines 86-87; revenues[-1] of an empty list raises IndexError
project_revenues(revenue, growth_rates, config) ==
    LET H == config.high_growth_period
        T == config.transition_period
        high == [t \in 1..H |-> Mul(revenue, Pow(Add(One, growth_rates[1]), t))]
    IN  IF T >= 1 /\ Len(high) = 0 THEN Raise("IndexError")
        ELSE Ok(high \o [t \in 1..T |->
                     Mul(high[Len(high)], Pow(Add(One, growth_rates[2]), t))])

\* terminal value, lines 89-97
terminal_value(revenues, fcf_margin, discount_rate, terminal_growth_rate, config, ftype) ==
    IF config.terminal_method = "perpetual_growth" THEN
        IF Len(revenues) = 0 THEN Raise("IndexError")
        ELSE LET terminal_revenue == Mul(revenues[Len(revenues)], Add(One, terminal_growth_rate))
                 terminal_fcf == Mul(terminal_revenue, fcf_margin)
             IN  TrueDiv(ftype, terminal_fcf, Sub(discount_rate, terminal_growth_rate))
    ELSE IF config.terminal_method = "exit_multiple" THEN
        IF Len(revenues) = 0 THEN Raise("IndexError")
        ELSE Ok(Mul(Mul(revenues[Len(revenues)], fcf_margin), config.exit_multiple))
    ELSE Raise("ValueError")

\* discounted sum of lines 99-101, then the per-share division of line 102
discount_and_divide(revenues, tv, fcf_margin, discount_rate, shares_outstanding, config, ftype) ==
    LET fcfs == [i \in 1..Len(revenues) |-> Mul(revenues[i], fcf_margin)]
        terms == [i \in 1..Len(fcfs) |->
                     TrueDiv(ftype, fcfs[i], Pow(Add(One, discount_rate), i))]
        tvd == TrueDiv(ftype, tv, Pow(Add(One, discount_rate),
                                      config.high_growth_period + config.transition_period))
    IN  IF \E i \in 1..Len(terms) : terms[i].exc # "none" THEN Raise("ZeroDivisionError")
        ELSE IF tvd.exc # "none" THEN tvd
        ELSE TrueDiv(ftype,
                     Add(SumSeq([i \in 1..Len(terms) |-> terms[i].val]), tvd.val),
                     shares_outstanding)

multi_stage_dcf(revenue, growth_rates, fcf_margin, discount_rate, terminal_growth_rate, shares_outstanding, config, ftype) ==
    LET revs == project_revenues(revenue, growth_rates, config)
    IN  IF revs.exc # "none" THEN revs
        ELSE LET tv == terminal_value(revs.val, fcf_margin, discount_rate,
                                      terminal_growth_rate, config, ftype)
             IN  IF tv.exc # "none" THEN tv
                 ELSE discount_and_divide(revs.val, tv.val, fcf_margin, discount_rate,
                                          shares_outstanding, config, ftype)

----------------------------------------------------------------------------
(* compare_prices *)

UNDER_FACTOR == <<9, 10>>
OVER_FACTOR == <<11, 10>>

\* compare_prices with inclusive thresholds
compare_prices_inclusive(stock_price, implied_price) ==
    IF ~Gt(stock_price, Mul(implied_price, UNDER_FACTOR)) THEN "Undervalued"
    ELSE IF ~Lt(stock_price, Mul(implied_price, OVER_FACTOR)) THEN "Overvalued"
    ELSE "Fairly Priced"

compare_prices(stock_price, implied_price) ==
    IF Lt(stock_price, Mul(implied_price, UNDER_FACTOR)) THEN "Undervalued"
    ELSE IF Gt(stock_price, Mul(implied_price, OVER_FACTOR)) THEN "Overvalued"
    ELSE "Fairly Priced"

----------------------------------------------------------------------------
(* Bounds of the model *)

\* largest num_monte_carlo_sims explored
MaxSims == 2
\* largest max_retries explored for a direct call of fetch_stock_data
MaxRetries == 3

----------------------------------------------------------------------------
(* State *)

VARIABLES
    provider,          \* what the market-data provider holds for the ticker
    config,            \* the configuration mapping
    pc,                \* position in the running call
    max_retries,       \* fetch_stock_data: its parameter
    retries,           \* fetch_stock_data: its loop counter
    attempts,          \* history: outcome of each fetch attempt, in order
    snapshot,          \* the 6-tuple fetch_stock_data returned
    fcf_margin,
    discount_rate,
    trial,             \* monte_carlo_simulation: trials performed so far
    simulated_prices,
    trial_log,         \* history: what each trial's DCF call produced, in order
    mean_price,
    valuation_status,
    chart_written,     \* valuation_plot.png was written
    steps,             \* history: stages of evaluate_stock executed, in order
    call,              \* arguments of a direct call of a pure function
    out                \* outcome of the call under study

vars == <<provider, config, pc, max_retries, retries, attempts, snapshot, fcf_margin,
          discount_rate, trial, simulated_prices, trial_log, mean_price,
          valuation_status, chart_written, steps, call, out>>

----------------------------------------------------------------------------
(* The configuration dictionary, lines 9-22 *)

RISK_FREE_RATE == <<7, 200>>
MARKET_RETURN == <<19, 200>>
TERMINAL_GROWTH_RATE == <<7, 200>>
DEFAULT_DISCOUNT_RATE == <<11, 1000>>
SENSITIVITY_RANGE == <<1, 25>>
EXIT_MULTIPLE == <<20, 1>>

TerminalMethods == {"perpetual_growth", "exit_multiple", "gordon"}

\* <<high_growth_period, transition_period>> of the configurations explored
\* (a run averages up to MaxSims exact prices, which must stay within TLC's
\* integers; longer horizons are explored by DcfSpec)
Horizons == {<<0, 0>>, <<0, 1>>, <<1, 0>>}

Configs ==
    {[risk_free_rate |-> RISK_FREE_RATE,
      market_return |-> MARKET_RETURN,
      terminal_growth_rate |-> TERMINAL_GROWTH_RATE,
      default_discount_rate |-> DEFAULT_DISCOUNT_RATE,
      high_growth_period |-> h[1],
      transition_period |-> h[2],
      sensitivity_range |-> SENSITIVITY_RANGE,
      num_monte_carlo_sims |-> n,
      terminal_method |-> m,
      exit_multiple |-> EXIT_MULTIPLE] :
        h \in Horizons, n \in 0..MaxSims, m \in TerminalMethods}

----------------------------------------------------------------------------
(* The market-data provider (yfinance), as fetch_stock_data reads it *)

InfoKeys == {"sharesOutstanding", "totalDebt", "marketCap", "beta"}

BaseInfo ==
    [k \in InfoKeys |->
        CASE k = "sharesOutstanding" -> Num(10)
          [] k = "totalDebt" -> Num(50)
          [] k = "marketCap" -> Num(150)
          [] k = "beta" -> One]

BaseProvider ==
    [history |-> "close", close |-> Num(4), revenue |-> Num(10),
     operating_cash_flow |-> Num(2), capital_expenditure |-> ABSENT,
     info |-> BaseInfo,
     outage |-> 0,          \* leading fetch attempts whose network call raises
     info_outage |-> FALSE] \* stock.info raises when read after the fetch

\* the base ticker, and tickers that differ from it in one respect
Providers ==
    {BaseProvider}
    \cup {[BaseProvider EXCEPT !.history = h] : h \in {"empty", "no_close"}}
    \cup {[BaseProvider EXCEPT !.close = c] : c \in {Num(1), Num(40)}}
    \cup {[BaseProvider EXCEPT !.revenue = r] : r \in {ABSENT, NAN, Zero}}
    \cup {[BaseProvider EXCEPT !.operating_cash_flow = o] : o \in {ABSENT, Zero, Num(-2)}}
    \cup {[BaseProvider EXCEPT !.capital_expenditure = Num(-1)]}
    \cup {[BaseProvider EXCEPT !.info["sharesOutstanding"] = v] : v \in {ABSENT, NONE, Zero}}
    \cup {[BaseProvider EXCEPT !.info["totalDebt"] = v] : v \in {ABSENT, NONE}}
    \cup {[BaseProvider EXCEPT !.info["marketCap"] = v] : v \in {ABSENT, NONE}}
    \cup {[BaseProvider EXCEPT !.outage = n] : n \in 1..(MaxRetries + 1)}
    \cup {[BaseProvider EXCEPT !.info_outage = TRUE]}
    \cup {[BaseProvider EXCEPT !.info["beta"] = v] : v \in {ABSENT, Num(-2)}}
    \cup {[BaseProvider EXCEPT !.revenue = Zero, !.info["sharesOutstanding"] = NONE]}
    \cup {[BaseProvider EXCEPT !.history = "empty", !.info["sharesOutstanding"] = NONE]}

----------------------------------------------------------------------------
(* validate_data, fetch_stock_data *)

validate_data(data, key, default) ==
    IF data[key] # ABSENT /\ data[key] # NONE THEN data[key]
    ELSE IF default # NONE THEN default ELSE NAN

MISSING == <<NAN, NAN, NAN, NAN, NAN, NAN>>

\* the body of the try block if an empty price history raised, as a missing
\* revenue row does
fetch_attempt_strict(p, attempt) ==
    IF attempt < p.outage THEN Raise("ConnectionError")
    ELSE IF p.history # "close" THEN Raise("AttributeError")
    ELSE IF p.revenue = ABSENT THEN Raise("KeyError")
    ELSE IF p.operating_cash_flow = ABSENT THEN Raise("KeyError")
    ELSE LET capital_expenditure == IF p.capital_expenditure # ABSENT
                                    THEN p.capital_expenditure ELSE Zero
             shares_outstanding == IF p.info["sharesOutstanding"] # ABSENT
                                   THEN p.info["sharesOutstanding"] ELSE One
         IN  Ok(<<p.close, p.revenue, Sub(p.operating_cash_flow, capital_expenditure),
                  shares_outstanding, validate_data(p.info, "totalDebt", Zero),
                  validate_data(p.info, "marketCap", NAN)>>)

\* the body of the try block, lines 35-46: the snapshot, or the exception caught
\* at line 47.  attempt counts from 0; only the attempts before the first one
\* that raises nothing are made, so the provider's transient failures are the
\* number of leading attempts they hit
fetch_attempt(p, attempt) ==
    IF attempt < p.outage THEN Raise("ConnectionError")
    \* line 36: validate_data gives nan when "Close" is missing, and nan has no .iloc
    ELSE IF p.history = "no_close" THEN Raise("AttributeError")
    ELSE IF p.revenue = ABSENT THEN Raise("KeyError")
    ELSE IF p.operating_cash_flow = ABSENT THEN Raise("KeyError")
    ELSE LET stock_price == IF p.history = "empty" THEN NAN ELSE p.close
             capital_expenditure == IF p.capital_expenditure # ABSENT
                                    THEN p.capital_expenditure ELSE Zero
             free_cash_flow == Sub(p.operating_cash_flow, capital_expenditure)
             shares_outstanding == IF p.info["sharesOutstanding"] # ABSENT
                                   THEN p.info["sharesOutstanding"] ELSE One
             debt == validate_data(p.info, "totalDebt", Zero)
             market_cap == validate_data(p.info, "marketCap", NAN)
         IN  Ok(<<stock_price, p.revenue, free_cash_flow, shares_outstanding,
                  debt, market_cap>>)

\* the loop condition with an off-by-one bound
loop_continues_inclusive(r, m) == r <= m

\* the loop condition of line 33
loop_continues(r, m) == r < m

\* one iteration of the while loop, lines 33-48
FetchAttempt ==
    /\ pc = "fetch"
    /\ loop_continues(retries, max_retries)
    /\ LET r == fetch_attempt(provider, Len(attempts))
       IN  IF r.exc = "none"
           THEN /\ snapshot' = r.val
                /\ attempts' = Append(attempts, "returned")
                /\ pc' = "fetched"
                /\ UNCHANGED retries
           ELSE /\ retries' = retries + 1
                /\ attempts' = Append(attempts, "raised")
                /\ UNCHANGED <<snapshot, pc>>
    /\ UNCHANGED <<provider, config, max_retries, fcf_margin, discount_rate, trial,
                   simulated_prices, trial_log, mean_price, valuation_status,
                   chart_written, steps, call, out>>

\* the loop exits with retries = max_retries, line 49
FetchExhausted ==
    /\ pc = "fetch"
    /\ ~loop_continues(retries, max_retries)
    /\ snapshot' = MISSING
    /\ pc' = "fetched"
    /\ UNCHANGED <<provider, config, max_retries, retries, attempts, fcf_margin,
                   discount_rate, trial, simulated_prices, trial_log, mean_price,
                   valuation_status, chart_written, steps, call, out>>

----------------------------------------------------------------------------
(* calculate_discount_rate *)

\* info_fails: reading stock.info raises, which line 78 catches
calculate_discount_rate(info, debt, market_cap, cfg, info_fails) ==
    IF info_fails THEN cfg.default_discount_rate
    ELSE LET beta == validate_data(info, "beta", One)
             cost_of_equity == Add(cfg.risk_free_rate,
                                   Mul(beta, Sub(cfg.market_return, cfg.risk_free_rate)))
             cost_of_debt == cfg.risk_free_rate
         IN  IF ~IsNaN(debt) /\ ~IsNaN(market_cap) /\ Gt(Add(debt, market_cap), Zero)
             THEN DivF64(Add(Mul(cost_of_equity, market_cap), Mul(cost_of_debt, debt)),
                         Add(debt, market_cap))
             ELSE cost_of_equity

----------------------------------------------------------------------------
(* monte_carlo_simulation *)

GROWTH_MEAN == <<1, 20>>
GROWTH_LO == <<-1, 5>>
GROWTH_HI == <<1, 2>>
DISCOUNT_LO == <<1, 100>>
DISCOUNT_HI == <<1, 5>>
TERMINAL_LO == <<1, 100>>
TERMINAL_HI == <<3, 50>>
HALF == <<1, 2>>

\* values np.random.normal may return when its scale is positive: below the
\* clip range, inside it, above it
GrowthDraws == {<<-1, 2>>, <<1, 10>>}
DiscountDraws == {Zero, <<1, 10>>, One}
TerminalDraws == {Zero, One}

\* np.random.normal(loc, scale): raises ValueError when scale < 0, returns loc
\* when scale = 0
normal(loc, scale, draws) ==
    IF Lt(scale, Zero) THEN Raise("ValueError")
    ELSE IF IsNaN(loc) \/ IsNaN(scale) THEN Ok({NAN})
    ELSE IF scale = Zero THEN Ok({loc})
    ELSE Ok(draws)

\* the try block without the price > 0 test
keep_price_unfiltered(prices, r) ==
    IF r.exc = "none" THEN Append(prices, r.val) ELSE prices

\* what the try block of lines 111-119 does with the outcome r of the DCF call
keep_price(prices, r) ==
    IF r.exc = "none" /\ Gt(r.val, Zero) THEN Append(prices, r.val) ELSE prices

\* the exceptions the except clause of line 118 catches
caught_by_trial(r) == r.exc = "ValueError"

\* an exception nothing catches ends the running call; at records the stage
Uncaught(e) ==
    /\ pc' = "raised"
    /\ out' = [out EXCEPT !.exc = e, !.at = pc]

\* line 105
MonteCarloStart ==
    /\ pc = "monte_carlo"
    /\ simulated_prices' = <<>>
    /\ trial' = 0
    /\ steps' = Append(steps, "monte_carlo")
    /\ pc' = "mc_loop"
    /\ UNCHANGED <<provider, config, max_retries, retries, attempts, snapshot, fcf_margin,
                   discount_rate, trial_log, mean_price, valuation_status,
                   chart_written, call, out>>

\* one iteration of the for loop, lines 106-119
MonteCarloTrial ==
    /\ pc = "mc_loop"
    /\ trial < config.num_monte_carlo_sims
    /\ LET g == normal(GROWTH_MEAN, config.sensitivity_range, GrowthDraws)
           d == normal(discount_rate, Mul(config.sensitivity_range, discount_rate),
                       DiscountDraws)
           t == normal(config.terminal_growth_rate,
                       Mul(config.sensitivity_range, config.terminal_growth_rate),
                       TerminalDraws)
       IN  IF g.exc # "none" \/ d.exc # "none" \/ t.exc # "none"
           THEN /\ Uncaught("ValueError")
                /\ UNCHANGED <<trial, simulated_prices, trial_log>>
           ELSE \E gd \in g.val, dd \in d.val, td \in t.val :
                  LET growth_rate == Clip(gd, GROWTH_LO, GROWTH_HI)
                      discount_rate_sim == Clip(dd, DISCOUNT_LO, DISCOUNT_HI)
                      terminal_growth_rate_sim == Clip(td, TERMINAL_LO, TERMINAL_HI)
                      r == multi_stage_dcf(snapshot[2], <<growth_rate, Mul(growth_rate, HALF)>>,
                                           fcf_margin, discount_rate_sim,
                                           terminal_growth_rate_sim, snapshot[4], config,
                                           "float64")
                  IN  /\ trial_log' = Append(trial_log, r)
                      /\ IF r.exc = "none" \/ caught_by_trial(r)
                         THEN /\ simulated_prices' = keep_price(simulated_prices, r)
                              /\ trial' = trial + 1
                              /\ UNCHANGED <<pc, out>>
                         ELSE /\ Uncaught(r.exc)
                              /\ UNCHANGED <<trial, simulated_prices>>
    /\ UNCHANGED <<provider, config, max_retries, retries, attempts, snapshot, fcf_margin,
                   discount_rate, mean_price, valuation_status, chart_written, steps, call>>

\* line 120
MonteCarloReturn ==
    /\ pc = "mc_loop"
    /\ ~(trial < config.num_monte_carlo_sims)
    /\ pc' = "mc_returned"
    /\ UNCHANGED <<provider, config, max_retries, retries, attempts, snapshot, fcf_margin,
                   discount_rate, trial, simulated_prices, trial_log, mean_price,
                   valuation_status, chart_written, steps, call, out>>

----------------------------------------------------------------------------
(* evaluate_stock *)

DEFAULT_MAX_RETRIES == 3

NoRecord ==
    [present |-> FALSE, stock_price |-> NAN, mean_simulated_price |-> NAN,
     valuation_status |-> "", revenue |-> NAN, free_cash_flow |-> NAN,
     fcf_margin |-> NAN]

Pending ==
    [exc |-> "none", at |-> "", record |-> NoRecord, status |-> "pending",
     chart |-> "None"]

\* a return statement of evaluate_stock
Return(record, status, chart) ==
    /\ pc' = "done"
    /\ out' = [out EXCEPT !.record = record, !.status = status, !.chart = chart]

\* any(np.isnan(x) for x in xs), line 131: left to right, stopping at the first
\* nan; np.isnan(None) raises TypeError
RECURSIVE any_isnan(_)
any_isnan(xs) ==
    IF xs = <<>> THEN Ok(FALSE)
    ELSE IF xs[1] = NONE THEN [exc |-> "TypeError", val |-> FALSE]
    ELSE IF IsNaN(xs[1]) THEN Ok(TRUE)
    ELSE any_isnan(Tail(xs))

\* lines 131-132
CheckMissing ==
    /\ pc = "fetched"
    /\ LET r == any_isnan(SubSeq(snapshot, 1, 4))
       IN  IF r.exc # "none" THEN Uncaught(r.exc)
           ELSE IF r.val THEN Return(NoRecord, "Failed to fetch stock data", "None")
           ELSE pc' = "check_revenue" /\ UNCHANGED out
    /\ UNCHANGED <<provider, config, max_retries, retries, attempts, snapshot, fcf_margin,
                   discount_rate, trial, simulated_prices, trial_log, mean_price,
                   valuation_status, chart_written, steps, call>>

\* evaluate_stock without the zero-revenue test
after_revenue_check_absent(revenue) == "fcf_margin"

\* the stage that follows the zero-revenue test of line 134
after_revenue_check(revenue) == IF revenue = Zero THEN "revenue_is_zero" ELSE "fcf_margin"

\* lines 134-135
CheckRevenue ==
    /\ pc = "check_revenue"
    /\ IF after_revenue_check(snapshot[2]) = "revenue_is_zero"
       THEN Return(NoRecord, "Revenue is zero", "None")
       ELSE pc' = after_revenue_check(snapshot[2]) /\ UNCHANGED out
    /\ UNCHANGED <<provider, config, max_retries, retries, attempts, snapshot, fcf_margin,
                   discount_rate, trial, simulated_prices, trial_log, mean_price,
                   valuation_status, chart_written, steps, call>>

\* line 137
ComputeMargin ==
    /\ pc = "fcf_margin"
    /\ fcf_margin' = DivF64(snapshot[3], snapshot[2])
    /\ steps' = Append(steps, "fcf_margin")
    /\ pc' = "discount_rate"
    /\ UNCHANGED <<provider, config, max_retries, retries, attempts, snapshot,
                   discount_rate, trial, simulated_prices, trial_log, mean_price,
                   valuation_status, chart_written, call, out>>

\* lines 138-139
CalcDiscountRate ==
    /\ pc = "discount_rate"
    /\ discount_rate' = calculate_discount_rate(provider.info, snapshot[5], snapshot[6],
                                                config, provider.info_outage)
    /\ steps' = Append(steps, "discount_rate")
    /\ pc' = "monte_carlo"
    /\ UNCHANGED <<provider, config, max_retries, retries, attempts, snapshot, fcf_margin,
                   trial, simulated_prices, trial_log, mean_price, valuation_status,
                   chart_written, call, out>>

\* evaluate_stock without the emptiness test
after_simulation_unchecked(prices) == "summarize"

\* the stage that follows the emptiness test of line 145
after_simulation(prices) == IF prices = <<>> THEN "no_valid_simulations" ELSE "summarize"

\* lines 145-146
CheckEmpty ==
    /\ pc = "mc_returned"
    /\ IF after_simulation(simulated_prices) = "no_valid_simulations"
       THEN Return(NoRecord, "No valid simulations", "None")
       ELSE pc' = after_simulation(simulated_prices) /\ UNCHANGED out
    /\ UNCHANGED <<provider, config, max_retries, retries, attempts, snapshot, fcf_margin,
                   discount_rate, trial, simulated_prices, trial_log, mean_price,
                   valuation_status, chart_written, steps, call>>

\* np.mean of a list; nan for the empty list
mean(prices) == DivF64(SumSeq(prices), Num(Len(prices)))

\* lines 148-149
Summarize ==
    /\ pc = "summarize"
    /\ mean_price' = mean(simulated_prices)
    /\ valuation_status' = compare_prices(snapshot[1], mean(simulated_prices))
    /\ pc' = "chart"
    /\ UNCHANGED <<provider, config, max_retries, retries, attempts, snapshot, fcf_margin,
                   discount_rate, trial, simulated_prices, trial_log, chart_written,
                   steps, call, out>>

\* lines 151-165.  The histogram of data that holds inf has no finite range:
\* the plotting library may refuse it with a ValueError
RenderChart ==
    /\ pc = "chart"
    /\ \/ /\ chart_written' = TRUE
          /\ pc' = "report"
          /\ UNCHANGED out
       \/ /\ \E i \in 1..Len(simulated_prices) : ~IsFinite(simulated_prices[i])
          /\ Uncaught("ValueError")
          /\ UNCHANGED chart_written
    /\ UNCHANGED <<provider, config, max_retries, retries, attempts, snapshot, fcf_margin,
                   discount_rate, trial, simulated_prices, trial_log, mean_price,
                   valuation_status, steps, call>>

\* lines 167-176
Report ==
    /\ pc = "report"
    /\ Return([present |-> TRUE, stock_price |-> snapshot[1],
               mean_simulated_price |-> mean_price,
               valuation_status |-> valuation_status, revenue |-> snapshot[2],
               free_cash_flow |-> snapshot[3], fcf_margin |-> fcf_margin],
              "Success", "valuation_plot.png")
    /\ UNCHANGED <<provider, config, max_retries, retries, attempts, snapshot, fcf_margin,
                   discount_rate, trial, simulated_prices, trial_log, mean_price,
                   valuation_status, chart_written, steps, call>>

----------------------------------------------------------------------------
(* evaluate_stock(ticker, config), for every ticker and configuration *)

NoCall == [fn |-> "evaluate_stock"]

\* the locals of evaluate_stock and of its callees before they are assigned
Unassigned ==
    /\ retries = 0
    /\ attempts = <<>>
    /\ snapshot = MISSING
    /\ fcf_margin = NAN
    /\ discount_rate = NAN
    /\ trial = 0
    /\ simulated_prices = <<>>
    /\ trial_log = <<>>
    /\ mean_price = NAN
    /\ valuation_status = ""
    /\ chart_written = FALSE
    /\ steps = <<>>

Init ==
    /\ provider \in Providers
    /\ config \in Configs
    /\ pc = "fetch"
    /\ max_retries = DEFAULT_MAX_RETRIES
    /\ Unassigned
    /\ call = NoCall
    /\ out = Pending

Next ==
    \/ FetchAttempt
    \/ FetchExhausted
    \/ CheckMissing
    \/ CheckRevenue
    \/ ComputeMargin
    \/ CalcDiscountRate
    \/ MonteCarloStart
    \/ MonteCarloTrial
    \/ MonteCarloReturn
    \/ CheckEmpty
    \/ Summarize
    \/ RenderChart
    \/ Report

Spec == Init /\ [][Next]_vars

----------------------------------------------------------------------------
(* fetch_stock_data(ticker, max_retries), called directly *)

DefaultConfig == CHOOSE c \in Configs :
    /\ c.high_growth_period = 1
    /\ c.num_monte_carlo_sims = MaxSims
    /\ c.terminal_method = "exit_multiple"

FetchInit ==
    /\ provider \in Providers
    /\ config = DefaultConfig
    /\ pc = "fetch"
    /\ max_retries \in 0..MaxRetries
    /\ Unassigned
    /\ call = [fn |-> "fetch_stock_data"]
    /\ out = Pending

FetchNext == FetchAttempt \/ FetchExhausted

\* the interpreter keeps running the loop until it returns
FetchSpec == FetchInit /\ [][FetchNext]_vars /\ WF_vars(FetchNext)

----------------------------------------------------------------------------
(* multi_stage_dcf(...), called directly *)

\* longest high-growth and transition periods of the direct calls
MaxHigh == 2
MaxTransition == 1

DcfConfigs ==
    {[DefaultConfig EXCEPT !.high_growth_period = h, !.transition_period = t,
                           !.terminal_method = m] :
        h \in 0..MaxHigh, t \in 0..MaxTransition, m \in TerminalMethods}

\* the worked example: revenue 1000, margin 0.2, discount rate 0.10, terminal
\* growth 0.035, periods 2 and 1, growth rates (0.10, 0.05), exit multiple 20,
\* 100 shares
ExampleCall ==
    [fn |-> "multi_stage_dcf",
     revenue |-> Num(1000),
     growth_rates |-> <<Rat(1, 10), Rat(1, 20)>>,
     fcf_margin |-> Rat(1, 5),
     discount_rate |-> Rat(1, 10),
     terminal_growth_rate |-> Rat(7, 200),
     shares_outstanding |-> Num(100),
     config |-> [DefaultConfig EXCEPT !.high_growth_period = 2, !.transition_period = 1,
                                      !.terminal_method = "exit_multiple"],
     ftype |-> "float"]

DcfCalls ==
    {ExampleCall} \cup
    [fn : {"multi_stage_dcf"},
     revenue : {Num(1000)},
     growth_rates : {<<Rat(1, 10), Rat(1, 20)>>, <<Rat(-1, 5), Rat(-1, 10)>>},
     fcf_margin : {Rat(1, 5), Rat(-1, 5)},
     discount_rate : {Rat(1, 10), One},
     terminal_growth_rate : {Rat(1, 20), Rat(1, 10), Rat(3, 20)},
     shares_outstanding : {Num(100), Zero},
     config : DcfConfigs,
     ftype : {"float", "float64"}]

NotReturned == [exc |-> "pending", val |-> NAN]

DcfInit ==
    /\ provider = BaseProvider
    /\ config = DefaultConfig
    /\ pc = "call"
    /\ max_retries = DEFAULT_MAX_RETRIES
    /\ Unassigned
    /\ call \in DcfCalls
    /\ out = NotReturned

DcfCall ==
    /\ pc = "call"
    /\ call.fn = "multi_stage_dcf"
    /\ out' = multi_stage_dcf(call.revenue, call.growth_rates, call.fcf_margin,
                              call.discount_rate, call.terminal_growth_rate,
                              call.shares_outstanding, call.config, call.ftype)
    /\ pc' = "returned"
    /\ UNCHANGED <<provider, config, max_retries, retries, attempts, snapshot, fcf_margin,
                   discount_rate, trial, simulated_prices, trial_log, mean_price,
                   valuation_status, chart_written, steps, call>>

DcfSpec == DcfInit /\ [][DcfCall]_vars

----------------------------------------------------------------------------
(* compare_prices(stock_price, implied_price), called directly *)

\* prices run over 0, 0.1, ..., MaxPriceTenths/10 and means over 1..MaxMean
MaxPriceTenths == 60
MaxMean == 5

CompareCalls ==
    [fn : {"compare_prices"},
     stock_price : {Rat(k, 10) : k \in 0..MaxPriceTenths},
     implied_price : {Num(m) : m \in 1..MaxMean} \cup {INF}]

NoLabel == [exc |-> "pending", val |-> ""]

CompareInit ==
    /\ provider = BaseProvider
    /\ config = DefaultConfig
    /\ pc = "call"
    /\ max_retries = DEFAULT_MAX_RETRIES
    /\ Unassigned
    /\ call \in CompareCalls
    /\ out = NoLabel

CompareCall ==
    /\ pc = "call"
    /\ call.fn = "compare_prices"
    /\ out' = Ok(compare_prices(call.stock_price, call.implied_price))
    /\ pc' = "returned"
    /\ UNCHANGED <<provider, config, max_retries, retries, attempts, snapshot, fcf_margin,
                   discount_rate, trial, simulated_prices, trial_log, mean_price,
                   valuation_status, chart_written, steps, call>>

CompareSpec == CompareInit /\ [][CompareCall]_vars

----------------------------------------------------------------------------
(* Properties of multi_stage_dcf *)

Labels == {"Undervalued", "Overvalued", "Fairly Priced"}

\* revenue of year t in closed form
ClosedRevenue(c, t) ==
    LET H == c.config.high_growth_period
    IN  IF t <= H
        THEN Mul(c.revenue, Pow(Add(One, c.growth_rates[1]), t))
        ELSE Mul(Mul(c.revenue, Pow(Add(One, c.growth_rates[1]), H)),
                 Pow(Add(One, c.growth_rates[2]), t - H))

\* sum over t = 1..n of revenue_t * margin / (1 + d)^t
RECURSIVE ClosedSum(_, _)
ClosedSum(c, n) ==
    IF n = 0 THEN Zero
    ELSE Add(ClosedSum(c, n - 1),
             DivF64(Mul(ClosedRevenue(c, n), c.fcf_margin),
                    Pow(Add(One, c.discount_rate), n)))

ClosedExitValue(c) ==
    LET n == c.config.high_growth_period + c.config.transition_period
    IN  DivF64(Add(ClosedSum(c, n),
                   DivF64(Mul(Mul(ClosedRevenue(c, n), c.fcf_margin), c.config.exit_multiple),
                          Pow(Add(One, c.discount_rate), n))),
               c.shares_outstanding)

\* C9: for H >= 1 and T >= 0 multi_stage_dcf projects exactly H+T yearly
\* revenues, year t <= H being R*(1+g)^t and year H+k being
\* R*(1+g)^H*(1+g2)^k; under exit_multiple (shares not 0) its result is the
\* discounted sum of the yearly cash flows plus the discounted terminal value
\* revenue_(H+T)*margin*exit_multiple, per share; the worked example gives
\* revenues 1100, 1210, 1270.5, terminal value 5082 and 44.0909... per share.
C9_ExitMultipleClosedForm ==
    (pc = "returned" /\ call.config.high_growth_period >= 1) =>
        LET n == call.config.high_growth_period + call.config.transition_period
            revs == project_revenues(call.revenue, call.growth_rates, call.config)
        IN  /\ revs.exc = "none"
            /\ Len(revs.val) = n
            /\ \A t \in 1..n : revs.val[t] = ClosedRevenue(call, t)
            /\ (call.config.terminal_method = "exit_multiple"
                    /\ call.shares_outstanding # Zero)
                 => out = Ok(ClosedExitValue(call))
            /\ call = ExampleCall =>
                 /\ revs.val = <<Num(1100), Num(1210), Rat(2541, 2)>>
                 /\ terminal_value(revs.val, call.fcf_margin, call.discount_rate,
                                   call.terminal_growth_rate, call.config, call.ftype)
                      = Ok(Num(5082))
                 /\ out = Ok(Rat(485, 11))

C9_Witness ==
    /\ pc = "returned"
    /\ call = ExampleCall
    /\ out = Ok(Rat(485, 11))

\* C2: under perpetual_growth, multi_stage_dcf signals an error and returns no
\* value whenever discount_rate <= terminal_growth_rate.
C2_PerpetualGrowthSignalsError ==
    (/\ pc = "returned"
     /\ call.config.terminal_method = "perpetual_growth"
     /\ ~Gt(call.discount_rate, call.terminal_growth_rate))
        => out.exc # "none"

----------------------------------------------------------------------------
(* Properties of compare_prices *)

\* C8: for every price p and positive mean m, compare_prices returns exactly
\* one label: Undervalued iff p < 0.9*m, Overvalued iff p > 1.1*m, Fairly
\* Priced otherwise; p = 0.9*m, p = 1.1*m and p = m are Fairly Priced.
C8_StrictThresholds ==
    pc = "returned" =>
        LET p == call.stock_price
            m == call.implied_price
            under == IF m = INF THEN TRUE ELSE 10 * p[1] * m[2] < 9 * m[1] * p[2]
            over == IF m = INF THEN FALSE ELSE 10 * p[1] * m[2] > 11 * m[1] * p[2]
            boundary == /\ m # INF
                        /\ \/ 10 * p[1] * m[2] = 9 * m[1] * p[2]
                           \/ 10 * p[1] * m[2] = 11 * m[1] * p[2]
                           \/ p = m
        IN  /\ out.exc = "none"
            /\ out.val \in Labels
            /\ out.val = "Undervalued" <=> under
            /\ out.val = "Overvalued" <=> over
            /\ out.val = "Fairly Priced" <=> (~under /\ ~over)
            /\ boundary => out.val = "Fairly Priced"

\* the lower threshold itself: p = 4.5 against m = 5
C8_Witness ==
    /\ pc = "returned"
    /\ call.stock_price = Rat(9, 2)
    /\ call.implied_price = Num(5)
    /\ out.val = "Fairly Priced"

----------------------------------------------------------------------------
(* Properties of fetch_stock_data *)

AllRaised(log) == \A i \in 1..Len(log) : log[i] = "raised"

C5_Inv ==
    /\ Len(attempts) <= max_retries
    /\ AllRaised(SubSeq(attempts, 1, Len(attempts) - 1))
    /\ pc = "fetch" => AllRaised(attempts)
    /\ pc = "fetched" =>
         IF attempts # <<>> /\ attempts[Len(attempts)] = "returned"
         THEN /\ fetch_attempt(provider, Len(attempts) - 1) = Ok(snapshot)
              /\ \A i \in 1..(Len(attempts) - 1) :
                    fetch_attempt(provider, i - 1).exc # "none"
         ELSE /\ Len(attempts) = max_retries
              /\ \A i \in 1..max_retries : fetch_attempt(provider, i - 1).exc # "none"
              /\ snapshot = <<NAN, NAN, NAN, NAN, NAN, NAN>>

\* C5: fetch_stock_data with max_retries = k makes at most k attempts and
\* always returns; it returns the snapshot of the first attempt that raises
\* nothing and makes no attempt after it; if all k attempts raise it returns
\* NaN for each of the six fields.
C5_BoundedRetry == [] C5_Inv /\ <>(pc = "fetched")

\* two attempts raise and the third returns
C5_Witness ==
    /\ pc = "fetched"
    /\ max_retries = 3
    /\ attempts = <<"raised", "raised", "returned">>
    /\ snapshot # MISSING

HasNaN(snap) == \E i \in 1..Len(snap) : IsNaN(snap[i])

\* C6 as stated: whenever revenue, operating cash flow or the price is absent
\* from the provider's data all six returned fields are NaN, and no returned
\* snapshot has some fields NaN and others present.
C6_AllOrNothing ==
    pc = "fetched" =>
        /\ (\/ provider.revenue = ABSENT
            \/ provider.operating_cash_flow = ABSENT
            \/ provider.history # "close") => snapshot = MISSING
        /\ HasNaN(snapshot) => snapshot = MISSING

\* C6 as amended: whenever the revenue row or the operating-cash-flow row (or
\* the Close column of a non-empty price history) is absent, all six returned
\* fields are NaN; an empty price history is not all-or-nothing: an attempt
\* that raises nothing then returns NaN for the price alone, beside the
\* revenue, free cash flow, shares and debt as fetched; an absent market cap
\* is likewise returned as NaN alone.
C6_StatementRowsAllOrNothing ==
    pc = "fetched" =>
        LET rows == provider.revenue # ABSENT /\ provider.operating_cash_flow # ABSENT
            answered == provider.outage < max_retries
            capex == IF provider.capital_expenditure = ABSENT THEN Zero
                     ELSE provider.capital_expenditure
            shares == provider.info["sharesOutstanding"]
            debt == provider.info["totalDebt"]
            cap == provider.info["marketCap"]
        IN  /\ (~rows \/ provider.history = "no_close") => snapshot = MISSING
            /\ (rows /\ answered /\ provider.history # "no_close") =>
                 /\ snapshot[1] = IF provider.history = "empty" THEN NAN ELSE provider.close
                 /\ snapshot[2] = provider.revenue
                 /\ snapshot[3] = Sub(provider.operating_cash_flow, capex)
                 /\ snapshot[4] = IF shares = ABSENT THEN One ELSE shares
                 /\ snapshot[5] = IF debt \in {ABSENT, NONE} THEN Zero ELSE debt
                 /\ snapshot[6] = IF cap \in {ABSENT, NONE} THEN NAN ELSE cap

\* an empty price history: the price alone is NaN
C6_Witness ==
    /\ pc = "fetched"
    /\ provider.history = "empty"
    /\ IsNaN(snapshot[1])
    /\ snapshot[2] = Num(10)
    /\ snapshot[3] = Num(2)

----------------------------------------------------------------------------
(* Properties of evaluate_stock and monte_carlo_simulation *)

Statuses ==
    {"Success", "Failed to fetch stock data", "Revenue is zero", "No valid simulations"}

Contains(s, x) == \E i \in 1..Len(s) : s[i] = x

\* C1: evaluate_stock never ends by raising, whatever the provider and the
\* configuration; it returns a triple whose status is one of the four
\* statuses.
C1_NeverRaises ==
    /\ pc # "raised"
    /\ pc = "done" => out.status \in Statuses

\* the prices of the trials that returned a positive price, in trial order
RECURSIVE KeptPrices(_)
KeptPrices(log) ==
    IF log = <<>> THEN <<>>
    ELSE LET rest == KeptPrices(SubSeq(log, 1, Len(log) - 1))
             r == log[Len(log)]
         IN  IF r.exc = "none" /\ Gt(r.val, Zero) THEN Append(rest, r.val) ELSE rest

\* C3: for every N >= 0 monte_carlo_simulation performs N trials and returns
\* at most N prices, each > 0, in trial order; a trial whose DCF call raises
\* the configuration error or returns a non-positive price is dropped and the
\* run goes on; it never aborts, and with N = 0 it returns the empty list.
C3_MonteCarloReturnsPrices ==
    /\ out.at # "mc_loop"
    /\ pc = "mc_returned" =>
         /\ Len(trial_log) = config.num_monte_carlo_sims
         /\ Len(simulated_prices) <= config.num_monte_carlo_sims
         /\ \A i \in 1..Len(simulated_prices) : Gt(simulated_prices[i], Zero)
         /\ simulated_prices = KeptPrices(trial_log)

PostSimulation == {"mc_returned", "summarize", "chart", "report"}

\* C4: when the fundamentals are complete, revenue is not 0 and the Monte
\* Carlo run returns no price, evaluate_stock returns "No valid simulations"
\* with no record and no chart; it neither raises nor computes a mean.
C4_NoValidSimulations ==
    /\ (pc = "done" /\ Contains(steps, "monte_carlo") /\ simulated_prices = <<>>)
         => /\ out.status = "No valid simulations"
            /\ out.record = NoRecord
            /\ out.chart = "None"
    /\ simulated_prices = <<>>
         => /\ pc \notin {"summarize", "chart", "report"}
            /\ out.at \notin PostSimulation
            /\ IsNaN(mean_price)
            /\ ~chart_written

\* every trial of a two-trial run raised the configuration error
C4_Witness ==
    /\ pc = "done"
    /\ out.status = "No valid simulations"
    /\ Len(trial_log) = 2
    /\ \A i \in 1..2 : trial_log[i].exc = "ValueError"

Complete(snap) == \A i \in 1..4 : snap[i] # NONE /\ ~IsNaN(snap[i])

\* C7: when the fetched snapshot is complete and revenue is 0, evaluate_stock
\* ends with "Revenue is zero" before the FCF margin, the discount rate or any
\* simulation is computed, and nothing runs after that verdict.
C7_ZeroRevenueShortCircuit ==
    /\ (/\ pc \notin {"fetch", "fetched", "check_revenue"}
        /\ Complete(snapshot)
        /\ snapshot[2] = Zero)
         => /\ pc = "done"
            /\ out.status = "Revenue is zero"
    /\ out.status = "Revenue is zero"
         => /\ pc = "done"
            /\ steps = <<>>
            /\ trial_log = <<>>
            /\ IsNaN(fcf_margin)
            /\ IsNaN(discount_rate)
            /\ ~ENABLED Next

C7_Witness ==
    /\ pc = "done"
    /\ Complete(snapshot)
    /\ snapshot[2] = Zero
    /\ out.status = "Revenue is zero"

\* C10: in every returned triple the record is present iff the status is
\* "Success" iff the chart path is present; on a failure both are None and no
\* chart file was written; on "Success" the mean simulated price is > 0 and
\* the valuation status is one of the three labels.
C10_TripleConsistent ==
    pc = "done" =>
        /\ out.status \in Statuses
        /\ out.record.present <=> out.status = "Success"
        /\ out.chart # "None" <=> out.status = "Success"
        /\ out.status # "Success" => (out.record = NoRecord /\ ~chart_written)
        /\ out.status = "Success" =>
             /\ chart_written
             /\ out.chart = "valuation_plot.png"
             /\ Gt(out.record.mean_simulated_price, Zero)
             /\ out.record.valuation_status \in Labels

C10_Witness ==
    /\ pc = "done"
    /\ out.status = "Success"
    /\ out.record.valuation_status = "Undervalued"
    /\ Len(simulated_prices) = 2

=============================================================================
